---------------------------- MODULE Spec2Model ----------------------------
(***************************************************************************)
(* A model of libbitcoin's chain::transaction (src/src/chain/              *)
(* transaction.cpp): its wire (de)serialization, the cached identity hash  *)
(* with its upgradeable mutex, and the consensus predicates.               *)
(*                                                                         *)
(* Unsigned integers of the program (uint32_t, uint64_t, size_t) are kept  *)
(* at their real width as little-endian byte sequences, so that overflow,  *)
(* truncation and saturation are the program's own.                        *)
(***************************************************************************)
EXTENDS Integers, Sequences, FiniteSets, TLC

(***************************************************************************)
(* Bounds of the model.                                                    *)
(***************************************************************************)
\* Largest number of inputs, and of outputs, of the transactions that are
\* serialized to make the byte buffers handed to from_data.
MaxCount == 1

\* Largest number of inputs, and of outputs, of the transactions the
\* consensus predicates are applied to.
MaxList == 2

\* Number of threads that call hash() (and reset()) on one transaction.
NThreads == 2

\* LET x == e IN F(x), with e evaluated once however often F uses x.
With(e, F(_)) == F(e)

(***************************************************************************)
(* Fixed-width unsigned integers as little-endian byte sequences.          *)
(***************************************************************************)
Zeros(n) == [i \in 1..n |-> 0]

Ones(n) == [i \in 1..n |-> 255]

RECURSIVE to_little_endian(_, _)
to_little_endian(n, width) ==
    IF width = 0 THEN <<>>
    ELSE <<n % 256>> \o to_little_endian(n \div 256, width - 1)

RECURSIVE from_little_endian(_)
from_little_endian(bytes) ==
    IF bytes = <<>> THEN 0
    ELSE Head(bytes) + 256 * from_little_endian(Tail(bytes))

\* a < b on two unsigned integers of the same width.
RECURSIVE Less(_, _)
Less(a, b) ==
    IF a = <<>> THEN FALSE
    ELSE LET n == Len(a) IN
         IF a[n] # b[n] THEN a[n] < b[n]
         ELSE Less(SubSeq(a, 1, n - 1), SubSeq(b, 1, n - 1))

GreaterEq(a, b) == ~Less(a, b)

\* a + b modulo 2^(8 * width): unsigned addition as the machine does it.
RECURSIVE AddCarry(_, _, _)
AddCarry(a, b, carry) ==
    IF a = <<>> THEN <<>>
    ELSE LET s == Head(a) + Head(b) + carry IN
         <<s % 256>> \o AddCarry(Tail(a), Tail(b), s \div 256)

Add(a, b) == AddCarry(a, b, 0)

\* a - b modulo 2^(8 * width).
RECURSIVE SubBorrow(_, _, _)
SubBorrow(a, b, borrow) ==
    IF a = <<>> THEN <<>>
    ELSE LET d == Head(a) - Head(b) - borrow IN
         <<(d + 256) % 256>>
             \o SubBorrow(Tail(a), Tail(b), IF d < 0 THEN 1 ELSE 0)

Sub(a, b) == SubBorrow(a, b, 0)

\* Zero extension to a wider integer.
Widen(a, width) == a \o Zeros(width - Len(a))

max_uint32 == Ones(4)

max_uint64 == Ones(8)

max_size_t == Ones(8)

\* 500000000 = 0x1DCD6500.
locktime_threshold == <<0, 101, 205, 29>>

max_input_sequence == max_uint32

null_hash == Zeros(32)

(***************************************************************************)
(* The binary cursor (reader) over a byte buffer: buf, the number of bytes *)
(* consumed, and the stream's validity.                                    *)
(***************************************************************************)
make_reader(data) == [buf |-> data, pos |-> 0, ok |-> TRUE]

read_bytes(source, n) ==
    IF source.ok /\ source.pos + n <= Len(source.buf)
    THEN [val |-> SubSeq(source.buf, source.pos + 1, source.pos + n),
          source |-> [source EXCEPT !.pos = source.pos + n]]
    ELSE [val |-> Zeros(n), source |-> [source EXCEPT !.ok = FALSE]]

read_4_bytes_little_endian(source) == read_bytes(source, 4)

read_8_bytes_little_endian(source) == read_bytes(source, 8)

\* Compact-size: the first byte is the value, or 0xfd, 0xfe, 0xff announce
\* a 2, 4 or 8 byte little-endian value.
read_wide(source, n) ==
    With(read_bytes(source, n), LAMBDA r :
        [val |-> from_little_endian(r.val), source |-> r.source])

read_variable_uint_little_endian(source) ==
    With(read_bytes(source, 1), LAMBDA first :
        IF ~first.source.ok THEN [val |-> 0, source |-> first.source]
        ELSE CASE first.val[1] < 253 ->
                      [val |-> first.val[1], source |-> first.source]
               [] first.val[1] = 253 -> read_wide(first.source, 2)
               [] first.val[1] = 254 -> read_wide(first.source, 4)
               [] OTHER -> read_wide(first.source, 8))

\* The writer's compact-size: the shortest form that holds the value.  The
\* sizes written here are lengths of sequences of the model, all below
\* 2^32, so the 0xff form is never written.
write_variable_uint_little_endian(n) ==
    IF n < 253 THEN <<n>>
    ELSE IF n <= 65535 THEN <<253>> \o to_little_endian(n, 2)
    ELSE <<254>> \o to_little_endian(n, 4)

variable_uint_size(n) ==
    IF n < 253 THEN 1
    ELSE IF n <= 65535 THEN 3
    ELSE 5

(***************************************************************************)
(* Inputs, outputs and scripts: collaborators of the transaction.          *)
(***************************************************************************)
default_input ==
    [previous_output |-> [hash |-> null_hash, index |-> Zeros(4)],
     script |-> <<>>,
     sequence |-> Zeros(4)]

default_output == [value |-> Zeros(8), script |-> <<>>]

\* output_point::is_null.
is_null(point) == point.hash = null_hash /\ point.index = max_uint32

\* input::is_final.
input_is_final(input) == input.sequence = max_input_sequence

input_to_data(input) ==
    input.previous_output.hash \o input.previous_output.index
        \o write_variable_uint_little_endian(Len(input.script))
        \o input.script \o input.sequence

input_serialized_size(input) ==
    36 + variable_uint_size(Len(input.script)) + Len(input.script) + 4

output_to_data(output) ==
    output.value \o write_variable_uint_little_endian(Len(output.script))
        \o output.script

output_serialized_size(output) ==
    8 + variable_uint_size(Len(output.script)) + Len(output.script)

\* input::from_data: on failure the input is left default.
input_from_data(source) ==
    With(read_bytes(source, 32), LAMBDA h :
    With(read_4_bytes_little_endian(h.source), LAMBDA i :
    With(read_variable_uint_little_endian(i.source), LAMBDA n :
    With(read_bytes(n.source, n.val), LAMBDA s :
    With(read_4_bytes_little_endian(s.source), LAMBDA q :
        IF q.source.ok
        THEN [val |-> [previous_output |-> [hash |-> h.val, index |-> i.val],
                       script |-> s.val, sequence |-> q.val],
              source |-> q.source, result |-> TRUE]
        ELSE [val |-> default_input, source |-> q.source,
              result |-> FALSE])))))

\* output::from_data: on failure the output is left default.
output_from_data(source) ==
    With(read_8_bytes_little_endian(source), LAMBDA v :
    With(read_variable_uint_little_endian(v.source), LAMBDA n :
    With(read_bytes(n.source, n.val), LAMBDA s :
        IF s.source.ok
        THEN [val |-> [value |-> v.val, script |-> s.val],
              source |-> s.source, result |-> TRUE]
        ELSE [val |-> default_output, source |-> s.source,
              result |-> FALSE])))

\* script::signature_operations(false): one per checksig (0xac) and
\* checksigverify (0xad), twenty per checkmultisig (0xae) and
\* checkmultisigverify (0xaf), as a size_t.
RECURSIVE script_sigop_count(_)
script_sigop_count(script) ==
    IF script = <<>> THEN 0
    ELSE (CASE Head(script) \in {172, 173} -> 1
            [] Head(script) \in {174, 175} -> 20
            [] OTHER -> 0) + script_sigop_count(Tail(script))

script_signature_operations(script) ==
    to_little_endian(script_sigop_count(script), 8)

\* bitcoin_hash: double SHA-256, taken as collision free: the digest
\* stands for the data it was computed from.
bitcoin_hash(data) == [sha256d |-> data]


(***************************************************************************)
(* The transaction object: its public fields and its two caches.  hash_   *)
(* is the shared pointer: <<>> when empty, <<digest>> when set.            *)
(***************************************************************************)
\* transaction(): version(0), locktime(0), sigops_(0), empty lists, no hash.
default_transaction ==
    [version |-> Zeros(4), locktime |-> Zeros(4), inputs |-> <<>>,
     outputs |-> <<>>, sigops_ |-> Zeros(8), hash_ |-> <<>>]

\* transaction(version, locktime, inputs, outputs): sigops_(0), no hash.
make_transaction(version, locktime, inputs, outputs) ==
    [version |-> version, locktime |-> locktime, inputs |-> inputs,
     outputs |-> outputs, sigops_ |-> Zeros(8), hash_ |-> <<>>]

is_valid(t) ==
    t.version # Zeros(4) \/ t.locktime # Zeros(4) \/ t.inputs # <<>>
        \/ t.outputs # <<>>

reset(t) ==
    [t EXCEPT !.version = Zeros(4), !.locktime = Zeros(4), !.inputs = <<>>,
              !.outputs = <<>>, !.sigops_ = Zeros(8), !.hash_ = <<>>]

RECURSIVE Concat(_)
Concat(chunks) ==
    IF chunks = <<>> THEN <<>> ELSE Head(chunks) \o Concat(Tail(chunks))

RECURSIVE SumNat(_)
SumNat(ns) == IF ns = <<>> THEN 0 ELSE Head(ns) + SumNat(Tail(ns))

\* A to_data that writes the number of inputs for both counts.
to_data_with_one_count(t) ==
    t.version
        \o write_variable_uint_little_endian(Len(t.inputs))
        \o Concat([i \in 1..Len(t.inputs) |-> input_to_data(t.inputs[i])])
        \o write_variable_uint_little_endian(Len(t.inputs))
        \o Concat([i \in 1..Len(t.outputs) |-> output_to_data(t.outputs[i])])
        \o t.locktime

to_data(t) ==
    t.version
        \o write_variable_uint_little_endian(Len(t.inputs))
        \o Concat([i \in 1..Len(t.inputs) |-> input_to_data(t.inputs[i])])
        \o write_variable_uint_little_endian(Len(t.outputs))
        \o Concat([i \in 1..Len(t.outputs) |-> output_to_data(t.outputs[i])])
        \o t.locktime

serialized_size(t) ==
    8 + variable_uint_size(Len(t.inputs))
      + SumNat([i \in 1..Len(t.inputs) |->
                   input_serialized_size(t.inputs[i])])
      + variable_uint_size(Len(t.outputs))
      + SumNat([i \in 1..Len(t.outputs) |->
                   output_serialized_size(t.outputs[i])])

\* inputs.resize(count), then the loop over the inputs that stops at the
\* first one that fails: the elements not reached stay default constructed.
RECURSIVE read_inputs(_, _)
read_inputs(source, count) ==
    IF count = 0 THEN [items |-> <<>>, source |-> source, result |-> TRUE]
    ELSE With(input_from_data(source), LAMBDA one :
         IF ~one.result
         THEN [items |-> <<one.val>>
                           \o [k \in 1..(count - 1) |-> default_input],
               source |-> one.source, result |-> FALSE]
         ELSE With(read_inputs(one.source, count - 1), LAMBDA rest :
              [items |-> <<one.val>> \o rest.items,
               source |-> rest.source, result |-> rest.result]))

RECURSIVE read_outputs(_, _)
read_outputs(source, count) ==
    IF count = 0 THEN [items |-> <<>>, source |-> source, result |-> TRUE]
    ELSE With(output_from_data(source), LAMBDA one :
         IF ~one.result
         THEN [items |-> <<one.val>>
                           \o [k \in 1..(count - 1) |-> default_output],
               source |-> one.source, result |-> FALSE]
         ELSE With(read_outputs(one.source, count - 1), LAMBDA rest :
              [items |-> <<one.val>> \o rest.items,
               source |-> rest.source, result |-> rest.result]))

\* The input count and the inputs (lines 165-179), entered when the version
\* was read: the populated transaction, the cursor and the result flag.
from_data_inputs(t, source) ==
    With(read_variable_uint_little_endian(source), LAMBDA count :
        IF ~count.source.ok
        THEN [tx |-> t, source |-> count.source, result |-> FALSE]
        ELSE With(read_inputs(count.source, count.val), LAMBDA ins :
             [tx |-> [t EXCEPT !.inputs = ins.items],
              source |-> ins.source, result |-> ins.result]))

\* The output count and the outputs (lines 184-198).
from_data_outputs(t, source) ==
    With(read_variable_uint_little_endian(source), LAMBDA count :
        IF ~count.source.ok
        THEN [tx |-> t, source |-> count.source, result |-> FALSE]
        ELSE With(read_outputs(count.source, count.val), LAMBDA outs :
             [tx |-> [t EXCEPT !.outputs = outs.items],
              source |-> outs.source, result |-> outs.result]))

\* The locktime (lines 203-204).
from_data_locktime(t, source) ==
    With(read_4_bytes_little_endian(source), LAMBDA l :
        [tx |-> [t EXCEPT !.locktime = l.val], source |-> l.source,
         result |-> l.source.ok])

\* from_data up to its last read: reset(), the version, and each later
\* part only if the one before it succeeded.
from_data_read(t, source) ==
    With(read_4_bytes_little_endian(source), LAMBDA v :
    With([tx |-> [reset(t) EXCEPT !.version = v.val], source |-> v.source,
          result |-> v.source.ok], LAMBDA r1 :
    With(IF r1.result THEN from_data_inputs(r1.tx, r1.source) ELSE r1,
         LAMBDA r2 :
    With(IF r2.result THEN from_data_outputs(r2.tx, r2.source) ELSE r2,
         LAMBDA r3 :
        IF r3.result THEN from_data_locktime(r3.tx, r3.source) ELSE r3))))

\* A from_data that forgets the reset of its failure path.
from_data_without_reset(t, source) ==
    With(from_data_read(t, source), LAMBDA r :
        [tx |-> r.tx, result |-> r.result, consumed |-> r.source.pos])

from_data(t, source) ==
    With(from_data_read(t, source), LAMBDA r :
        [tx |-> IF ~r.result THEN reset(r.tx) ELSE r.tx,
         result |-> r.result, consumed |-> r.source.pos])

\* hash() run by one thread with no other thread about: the cache is filled
\* when empty, and the cached digest is returned.
hash(t) ==
    With(IF t.hash_ = <<>>
         THEN [t EXCEPT !.hash_ = <<bitcoin_hash(to_data(t))>>]
         ELSE t,
         LAMBDA filled : [tx |-> filled, ret |-> filled.hash_[1]])

\* operator=(const transaction& other): other.hash() fills other's cache.
copy_assign(t, other) ==
    With(hash(other), LAMBDA h :
        [this |-> [version |-> other.version, locktime |-> other.locktime,
                   inputs |-> other.inputs, outputs |-> other.outputs,
                   sigops_ |-> other.sigops_, hash_ |-> <<h.ret>>],
         other |-> h.tx])

\* operator=(transaction&& other): the lists are moved out of other, which
\* is left with empty lists; sigops_ and hash_ of this are not touched.
move_assign(t, other) ==
    [this |-> [t EXCEPT !.version = other.version,
                        !.locktime = other.locktime,
                        !.inputs = other.inputs,
                        !.outputs = other.outputs],
     other |-> [other EXCEPT !.inputs = <<>>, !.outputs = <<>>]]

(***************************************************************************)
(* Consensus predicates.                                                   *)
(***************************************************************************)
is_final(t, block_height, block_time) ==
    IF t.locktime = Zeros(4) THEN TRUE
    ELSE LET max_locktime ==
                 IF Less(t.locktime, locktime_threshold)
                 THEN SubSeq(block_height, 1, 4) \* static_cast<uint32_t>
                 ELSE block_time
         IN  IF Less(t.locktime, max_locktime) THEN TRUE
             ELSE \A i \in 1..Len(t.inputs) : input_is_final(t.inputs[i])

\* An addition that wraps instead of clamping.
wrapping_value(total, output) == Add(total, output.value)

\* The lambda of total_output_value.
value(total, output) ==
    IF GreaterEq(total, Sub(max_uint64, output.value))
    THEN max_uint64
    ELSE Add(total, output.value)

RECURSIVE accumulate_value(_, _)
accumulate_value(outputs, total) ==
    IF outputs = <<>> THEN total
    ELSE accumulate_value(Tail(outputs), value(total, Head(outputs)))

total_output_value(t) == accumulate_value(t.outputs, Zeros(8))

\* The lambdas in and out of signature_operations.
in(total, input) ==
    LET count == script_signature_operations(input.script) IN
    IF GreaterEq(total, Sub(max_size_t, count))
    THEN max_size_t
    ELSE Add(total, count)

out(total, output) ==
    LET count == script_signature_operations(output.script) IN
    IF GreaterEq(total, Sub(max_size_t, count))
    THEN max_size_t
    ELSE Add(total, count)

RECURSIVE accumulate_in(_, _)
accumulate_in(inputs, total) ==
    IF inputs = <<>> THEN total
    ELSE accumulate_in(Tail(inputs), in(total, Head(inputs)))

RECURSIVE accumulate_out(_, _)
accumulate_out(outputs, total) ==
    IF outputs = <<>> THEN total
    ELSE accumulate_out(Tail(outputs), out(total, Head(outputs)))

\* Both std::accumulate calls take sigops_ by value and their results are
\* dropped: sigops_ is what it was, and it is what is returned.
signature_operations(t) ==
    IF t.sigops_ # Zeros(8) THEN [tx |-> t, ret |-> t.sigops_]
    ELSE LET dropped_in  == accumulate_in(t.inputs, t.sigops_)
             dropped_out == accumulate_out(t.outputs, t.sigops_)
         IN  [tx |-> t, ret |-> t.sigops_]

(***************************************************************************)
(* The values the operations are applied to.                               *)
(***************************************************************************)
\* A coinbase style input: null previous output, final sequence.
null_input ==
    [previous_output |-> [hash |-> null_hash, index |-> max_uint32],
     script |-> <<>>, sequence |-> max_input_sequence]

\* A spending input: a checksig script, a sequence that is not final.
spend_input ==
    [previous_output |-> [hash |-> Ones(32), index |-> Zeros(4)],
     script |-> <<172>>, sequence |-> Zeros(4)]

InputPool == {null_input, spend_input}

OutputPool ==
    {[value |-> v, script |-> <<>>] :
         v \in {Zeros(8), to_little_endian(1, 8), Sub(max_uint64, Zeros(8)),
                Sub(max_uint64, to_little_endian(1, 8))}}
      \cup {[value |-> to_little_endian(1, 8), script |-> <<174, 172>>]}

SeqsUpTo(S, n) == UNION {[1..k -> S] : k \in 0..n}

\* The transactions whose serializations make the byte buffers: n inputs
\* and m outputs, version 1.
WireTx(n, m) ==
    make_transaction(to_little_endian(1, 4), Zeros(4),
        [i \in 1..n |-> IF i % 2 = 1 THEN spend_input ELSE null_input],
        [i \in 1..m |-> [value |-> to_little_endian(i, 8),
                         script |-> IF i % 2 = 1 THEN <<172>> ELSE <<>>]])

WireTxs == {WireTx(n, m) : n, m \in 0..MaxCount}

\* A compact-size written in a chosen form of 1, 3 or 9 bytes (the reader
\* takes every form, shortest or not).
compact_size_in_form(n, form) ==
    CASE form = 1 -> <<n>>
      [] form = 3 -> <<253>> \o to_little_endian(n, 2)
      [] OTHER -> <<255>> \o to_little_endian(n, 8)

wire_in_form(t, form_in, form_out) ==
    t.version
        \o compact_size_in_form(Len(t.inputs), form_in)
        \o Concat([i \in 1..Len(t.inputs) |-> input_to_data(t.inputs[i])])
        \o compact_size_in_form(Len(t.outputs), form_out)
        \o Concat([i \in 1..Len(t.outputs) |-> output_to_data(t.outputs[i])])
        \o t.locktime

Forms == {1, 3, 9}

\* Every serialization of a sample transaction, each of its prefixes (a
\* truncated buffer), and the serialization followed by one more byte.
ParseBuffers ==
    UNION {LET w == wire_in_form(t, fi, fo) IN
           {SubSeq(w, 1, k) : k \in 0..Len(w)} \cup {w \o <<0>>} :
               t \in WireTxs, fi \in Forms, fo \in Forms}

\* The buffers of the object lifecycle: the serializations and one that is
\* truncated.
LifecycleBuffers == {to_data(t) : t \in WireTxs} \cup {<<1, 0, 0, 0, 1>>}

Objs == {1, 2}

Threads == 1..NThreads

(***************************************************************************)
(* State.                                                                  *)
(***************************************************************************)
VARIABLES
    tx,      \* tx[o]: the transaction objects
    data,    \* the byte buffer handed to from_data
    last,    \* the last call made on an object, with what it returned
    pc,      \* pc[t]: where thread t is in hash() or reset()
    mutex,   \* hash_mutex_ of tx[1]: the sets (of at most one thread) that
             \* own it exclusively and for upgrade
    local,   \* local[t]: the digest thread t computed in hash()
    ret,     \* ret[t]: <<digest>> once hash() has read the cache for t
    stores   \* stores into the hash cache since it was last emptied

vars == <<tx, data, last, pc, mutex, local, ret, stores>>

threadVars == <<pc, mutex, local, ret, stores>>

NoCall == [op |-> "none", obj |-> 0, ret |-> FALSE, arg |-> <<>>]

InitThreads ==
    /\ pc = [t \in Threads |-> "idle"]
    /\ mutex = [exclusive |-> {}, upgrade |-> {}]
    /\ local = [t \in Threads |-> <<>>]
    /\ ret = [t \in Threads |-> <<>>]
    /\ stores = 0

(***************************************************************************)
(* Calls on an object made by one thread.                                  *)
(***************************************************************************)
FromData(o) ==
    \E r \in {from_data(tx[o], make_reader(data))} :
    /\ tx' = [tx EXCEPT ![o] = r.tx]
    /\ last' = [op |-> "from_data", obj |-> o, ret |-> r.result,
                arg |-> [consumed |-> r.consumed,
                         was_valid |-> is_valid(tx[o]),
                         was_cached |-> tx[o].hash_ # <<>>]]
    /\ UNCHANGED <<data, threadVars>>

Reset(o) ==
    /\ tx' = [tx EXCEPT ![o] = reset(tx[o])]
    /\ last' = [op |-> "reset", obj |-> o, ret |-> FALSE, arg |-> <<>>]
    /\ UNCHANGED <<data, threadVars>>

Hash(o) ==
    \E r \in {hash(tx[o])} :
    /\ tx' = [tx EXCEPT ![o] = r.tx]
    /\ last' = [op |-> "hash", obj |-> o, ret |-> r.ret,
                arg |-> [was_cached |-> tx[o].hash_ # <<>>]]
    /\ UNCHANGED <<data, threadVars>>

CopyAssign(o, from) ==
    \E r \in {copy_assign(tx[o], tx[from])} :
    /\ o # from
    /\ tx' = [tx EXCEPT ![o] = r.this, ![from] = r.other]
    /\ last' = [op |-> "copy_assign", obj |-> o, ret |-> FALSE,
                arg |-> <<from>>]
    /\ UNCHANGED <<data, threadVars>>

MoveAssign(o, from) ==
    \E r \in {move_assign(tx[o], tx[from])} :
    /\ o # from
    /\ tx' = [tx EXCEPT ![o] = r.this, ![from] = r.other]
    /\ last' = [op |-> "move_assign", obj |-> o, ret |-> FALSE,
                arg |-> <<from>>]
    /\ UNCHANGED <<data, threadVars>>

\* The object lifecycle: two transactions as constructed, and every
\* sequence of from_data, reset, hash and assignments between them.
Init ==
    /\ tx \in [Objs -> {default_transaction} \cup WireTxs]
    /\ data \in LifecycleBuffers
    /\ last = NoCall
    /\ InitThreads

Next ==
    \E o \in Objs :
        \/ FromData(o)
        \/ Reset(o)
        \/ Hash(o)
        \/ \E from \in Objs : CopyAssign(o, from)
        \/ \E from \in Objs : MoveAssign(o, from)

Spec == Init /\ [][Next]_vars

\* Deserialization: one transaction, empty or populated, and a buffer.
InitParse ==
    /\ tx \in [Objs -> {default_transaction, WireTx(1, 1)}]
    /\ tx[2] = default_transaction
    /\ data \in ParseBuffers
    /\ last = NoCall
    /\ InitThreads

NextParse == FromData(1) \/ Hash(1)

SpecParse == InitParse /\ [][NextParse]_vars

(***************************************************************************)
(* The consensus predicates, each applied to a constructed transaction.    *)
(***************************************************************************)
Locktimes ==
    {Zeros(4), to_little_endian(5, 4), locktime_threshold,
     Add(locktime_threshold, to_little_endian(5, 4))}

\* Block heights below and above locktime 5, and at and above 2^32.
BlockHeights ==
    {Zeros(8), to_little_endian(5, 8), to_little_endian(6, 8),
     <<0, 0, 0, 0, 1, 0, 0, 0>>, <<6, 0, 0, 0, 1, 0, 0, 0>>}

BlockTimes ==
    {Zeros(4), Add(locktime_threshold, to_little_endian(5, 4)),
     Add(locktime_threshold, to_little_endian(6, 4))}

\* Every locktime with every list of inputs, and every list of inputs with
\* every list of outputs.
PredicateTxs ==
    {make_transaction(to_little_endian(1, 4), locktime, ins, <<>>) :
         locktime \in Locktimes, ins \in SeqsUpTo(InputPool, MaxList)}
      \cup
    {make_transaction(to_little_endian(1, 4), Zeros(4), ins, outs) :
         ins \in SeqsUpTo(InputPool, MaxList),
         outs \in SeqsUpTo(OutputPool, MaxList)}

IsFinal(o) ==
    \E block_height \in BlockHeights, block_time \in BlockTimes :
        /\ last' = [op |-> "is_final", obj |-> o,
                    ret |-> is_final(tx[o], block_height, block_time),
                    arg |-> [block_height |-> block_height,
                             block_time |-> block_time]]
        /\ UNCHANGED <<tx, data, threadVars>>

TotalOutputValue(o) ==
    /\ last' = [op |-> "total_output_value", obj |-> o,
                ret |-> total_output_value(tx[o]), arg |-> <<>>]
    /\ UNCHANGED <<tx, data, threadVars>>

SignatureOperations(o) ==
    \E r \in {signature_operations(tx[o])} :
        /\ tx' = [tx EXCEPT ![o] = r.tx]
        /\ last' = [op |-> "signature_operations", obj |-> o,
                    ret |-> r.ret, arg |-> <<>>]
        /\ UNCHANGED <<data, threadVars>>

InitPredicates ==
    /\ tx \in [Objs -> {default_transaction} \cup PredicateTxs]
    /\ tx[2] = default_transaction
    /\ data = <<>>
    /\ last = NoCall
    /\ InitThreads

NextPredicates ==
    IsFinal(1) \/ TotalOutputValue(1) \/ SignatureOperations(1)

SpecPredicates == InitPredicates /\ [][NextPredicates]_vars

(***************************************************************************)
(* hash() and reset() on tx[1], statement by statement, run by threads.    *)
(* hash_mutex_ is an upgrade mutex: exclusive ownership excludes every     *)
(* other ownership, and upgrade ownership excludes exclusive ownership     *)
(* and any other upgrade ownership.  No code takes it shared.              *)
(***************************************************************************)
Goto(t, label) == pc' = [pc EXCEPT ![t] = label]

CallHash(t) ==
    /\ pc[t] = "idle"
    /\ Goto(t, "lock_upgrade")
    /\ local' = [local EXCEPT ![t] = <<>>]
    /\ ret' = [ret EXCEPT ![t] = <<>>]
    /\ UNCHANGED <<tx, data, last, mutex, stores>>

\* A lock_upgrade that, like lock_shared, lets in a second owner.
LockUpgradeAsShared(t) ==
    /\ pc[t] = "lock_upgrade"
    /\ mutex.exclusive = {}
    /\ mutex' = [mutex EXCEPT !.upgrade = {t}]
    /\ Goto(t, "check")
    /\ UNCHANGED <<tx, data, last, local, ret, stores>>

\* hash_mutex_.lock_upgrade()
LockUpgrade(t) ==
    /\ pc[t] = "lock_upgrade"
    /\ mutex.exclusive = {}
    /\ mutex.upgrade = {}
    /\ mutex' = [mutex EXCEPT !.upgrade = {t}]
    /\ Goto(t, "check")
    /\ UNCHANGED <<tx, data, last, local, ret, stores>>

\* A hash() that computes whether or not the cache is filled.
CheckCacheAlwaysEmpty(t) ==
    /\ pc[t] = "check"
    /\ Goto(t, "upgrade")
    /\ UNCHANGED <<tx, data, last, mutex, local, ret, stores>>

\* if (!hash_)
CheckCache(t) ==
    /\ pc[t] = "check"
    /\ Goto(t, IF tx[1].hash_ = <<>> THEN "upgrade" ELSE "read")
    /\ UNCHANGED <<tx, data, last, mutex, local, ret, stores>>

\* An upgrade that computes under the upgrade ownership it already has.
KeepUpgrade(t) ==
    /\ pc[t] = "upgrade"
    /\ Goto(t, "serialize")
    /\ UNCHANGED <<tx, data, last, mutex, local, ret, stores>>

\* hash_mutex_.unlock_upgrade_and_lock(): waits for no owner but itself.
UnlockUpgradeAndLock(t) ==
    /\ pc[t] = "upgrade"
    /\ mutex.exclusive = {}
    /\ mutex.upgrade = {t}
    /\ mutex' = [exclusive |-> {t}, upgrade |-> {}]
    /\ Goto(t, "serialize")
    /\ UNCHANGED <<tx, data, last, local, ret, stores>>

\* The fields as a reader may find them while reset() writes them with no
\* lock held: the first k of its five writes made, for each k.
FieldsDuringReset(t) ==
    {[t EXCEPT !.version  = IF k >= 1 THEN Zeros(4) ELSE @,
               !.locktime = IF k >= 2 THEN Zeros(4) ELSE @,
               !.inputs   = IF k >= 3 THEN <<>> ELSE @,
               !.outputs  = IF k >= 4 THEN <<>> ELSE @,
               !.sigops_  = IF k >= 5 THEN Zeros(8) ELSE @] : k \in 0..5}

\* bitcoin_hash(to_data()): the fields are read as they are at this moment,
\* or as a reset() that is writing them leaves them to be seen.
Serialize(t) ==
    /\ pc[t] = "serialize"
    /\ \E seen \in IF \E u \in Threads : pc[u] = "reset_fields"
                   THEN FieldsDuringReset(tx[1]) ELSE {tx[1]} :
           local' = [local EXCEPT ![t] = <<bitcoin_hash(to_data(seen))>>]
    /\ Goto(t, "store")
    /\ UNCHANGED <<tx, data, last, mutex, ret, stores>>

\* hash_.reset(new hash_digest(...)): the temporary is moved into the cache.
Store(t) ==
    /\ pc[t] = "store"
    /\ tx' = [tx EXCEPT ![1].hash_ = local[t]]
    /\ local' = [local EXCEPT ![t] = <<>>]
    /\ stores' = stores + 1
    /\ Goto(t, "downgrade")
    /\ UNCHANGED <<data, last, mutex, ret>>

\* hash_mutex_.unlock_and_lock_upgrade()
UnlockAndLockUpgrade(t) ==
    /\ pc[t] = "downgrade"
    /\ mutex' = [exclusive |-> {}, upgrade |-> {t}]
    /\ Goto(t, "read")
    /\ UNCHANGED <<tx, data, last, local, ret, stores>>

\* const auto hash = *hash_
ReadCache(t) ==
    /\ pc[t] = "read"
    /\ ret' = [ret EXCEPT ![t] = tx[1].hash_]
    /\ Goto(t, "unlock_upgrade")
    /\ UNCHANGED <<tx, data, last, mutex, local, stores>>

\* A hash() that returns without giving the mutex back.
ReturnWithoutUnlock(t) ==
    /\ pc[t] = "unlock_upgrade"
    /\ Goto(t, "idle")
    /\ UNCHANGED <<tx, data, last, mutex, local, ret, stores>>

\* hash_mutex_.unlock_upgrade(); return hash
UnlockUpgrade(t) ==
    /\ pc[t] = "unlock_upgrade"
    /\ mutex' = [mutex EXCEPT !.upgrade = {}]
    /\ Goto(t, "idle")
    /\ UNCHANGED <<tx, data, last, local, ret, stores>>

HashStep(t) ==
    \/ CheckCache(t)
    \/ UnlockUpgradeAndLock(t)
    \/ Serialize(t)
    \/ Store(t)
    \/ UnlockAndLockUpgrade(t)
    \/ ReadCache(t)
    \/ UnlockUpgrade(t)

\* Threads that call hash() on one transaction whose cache starts empty.
InitConcurrent ==
    /\ tx \in [Objs -> {default_transaction} \cup WireTxs]
    /\ tx[2] = default_transaction
    /\ data = <<>>
    /\ last = NoCall
    /\ InitThreads

NextConcurrent ==
    \E t \in Threads :
        \/ CallHash(t)
        \/ LockUpgrade(t)
        \/ CheckCache(t)
        \/ UnlockUpgradeAndLock(t)
        \/ Serialize(t)
        \/ Store(t)
        \/ UnlockAndLockUpgrade(t)
        \/ ReadCache(t)
        \/ UnlockUpgrade(t)

SpecConcurrent == InitConcurrent /\ [][NextConcurrent]_vars

(***************************************************************************)
(* reset() run by a thread: the fields are written with no lock held, the  *)
(* cache is emptied under exclusive ownership.                             *)
(***************************************************************************)
CallReset(t) ==
    /\ pc[t] = "idle"
    /\ Goto(t, "reset_fields")
    /\ UNCHANGED <<tx, data, last, mutex, local, ret, stores>>

\* version = 0 ... sigops_ = 0: the five writes of the fields, made with no
\* lock held; what a hash() that serializes meanwhile reads of them is in
\* Serialize.
ResetFields(t) ==
    /\ pc[t] = "reset_fields"
    /\ tx' = [tx EXCEPT ![1] = [reset(tx[1]) EXCEPT !.hash_ = tx[1].hash_]]
    /\ Goto(t, "lock")
    /\ UNCHANGED <<data, last, mutex, local, ret, stores>>

\* hash_mutex_.lock()
Lock(t) ==
    /\ pc[t] = "lock"
    /\ mutex.exclusive = {}
    /\ mutex.upgrade = {}
    /\ mutex' = [mutex EXCEPT !.exclusive = {t}]
    /\ Goto(t, "reset_hash")
    /\ UNCHANGED <<tx, data, last, local, ret, stores>>

\* hash_.reset()
ResetHash(t) ==
    /\ pc[t] = "reset_hash"
    /\ tx' = [tx EXCEPT ![1].hash_ = <<>>]
    /\ stores' = 0
    /\ Goto(t, "unlock")
    /\ UNCHANGED <<data, last, mutex, local, ret>>

\* hash_mutex_.unlock()
Unlock(t) ==
    /\ pc[t] = "unlock"
    /\ mutex' = [mutex EXCEPT !.exclusive = {}]
    /\ Goto(t, "idle")
    /\ UNCHANGED <<tx, data, last, local, ret, stores>>

ResetStep(t) ==
    \/ ResetFields(t)
    \/ ResetHash(t)
    \/ Unlock(t)

\* Threads that call hash() and reset() on one populated transaction.
InitLive ==
    /\ tx = [o \in Objs |-> IF o = 1 THEN WireTx(1, 1)
                            ELSE default_transaction]
    /\ data = <<>>
    /\ last = NoCall
    /\ InitThreads

NextLive ==
    \E t \in Threads :
        \/ CallHash(t)
        \/ CallReset(t)
        \/ LockUpgrade(t)
        \/ Lock(t)
        \/ HashStep(t)
        \/ ResetStep(t)

\* A thread that is inside a call and can take a step takes one, and a
\* thread that waits for the mutex gets it if it is free again and again.
Fairness ==
    \A t \in Threads :
        /\ WF_vars(HashStep(t) \/ ResetStep(t))
        /\ SF_vars(LockUpgrade(t) \/ Lock(t))

SpecLive == InitLive /\ [][NextLive]_vars /\ Fairness

(***************************************************************************)
(* Properties.                                                             *)
(***************************************************************************)
Called(op) == last.op = op

C2_HashIsDigestOfSerialization ==
    Called("hash") => last.ret = bitcoin_hash(to_data(tx[last.obj]))

\* Whether the compact-size at the cursor is written in its shortest form.
compact_size_is_shortest(source) ==
    With(read_bytes(source, 1), LAMBDA first :
        CASE first.val[1] < 253 -> TRUE
          [] first.val[1] = 253 ->
                 With(read_bytes(first.source, 2), LAMBDA r :
                     r.val[2] # 0 \/ r.val[1] >= 253)
          [] first.val[1] = 254 ->
                 With(read_bytes(first.source, 4), LAMBDA r :
                     r.val[3] # 0 \/ r.val[4] # 0)
          [] OTHER ->
                 With(read_bytes(first.source, 8), LAMBDA r :
                     SubSeq(r.val, 5, 8) # Zeros(4)))

\* Whether the script lengths of count inputs (each after the 36 bytes of
\* the previous output) are in shortest form, and the cursor after them.
RECURSIVE inputs_are_shortest(_, _)
inputs_are_shortest(source, count) ==
    IF count = 0 THEN [shortest |-> TRUE, source |-> source]
    ELSE With(read_bytes(source, 36), LAMBDA point :
         With(read_variable_uint_little_endian(point.source), LAMBDA n :
         With(read_bytes(n.source, n.val + 4), LAMBDA tail :
         With(inputs_are_shortest(tail.source, count - 1), LAMBDA rest :
             [shortest |-> compact_size_is_shortest(point.source)
                               /\ rest.shortest,
              source |-> rest.source]))))

RECURSIVE outputs_are_shortest(_, _)
outputs_are_shortest(source, count) ==
    IF count = 0 THEN [shortest |-> TRUE, source |-> source]
    ELSE With(read_bytes(source, 8), LAMBDA amount :
         With(read_variable_uint_little_endian(amount.source), LAMBDA n :
         With(read_bytes(n.source, n.val), LAMBDA tail :
         With(outputs_are_shortest(tail.source, count - 1), LAMBDA rest :
             [shortest |-> compact_size_is_shortest(amount.source)
                               /\ rest.shortest,
              source |-> rest.source]))))

\* Every compact-size of the transaction at the head of the buffer (the
\* two counts and every script length) is written in its shortest form.
CompactSizesAreShortest(buffer) ==
    With(read_bytes(make_reader(buffer), 4), LAMBDA v :
    With(read_variable_uint_little_endian(v.source), LAMBDA ni :
    With(inputs_are_shortest(ni.source, ni.val), LAMBDA ins :
    With(read_variable_uint_little_endian(ins.source), LAMBDA no :
    With(outputs_are_shortest(no.source, no.val), LAMBDA outs :
        /\ compact_size_is_shortest(v.source)
        /\ ins.shortest
        /\ compact_size_is_shortest(ins.source)
        /\ outs.shortest)))))

\* C3 as stated: whenever from_data succeeds on a buffer, to_data gives
\* back the buffer byte for byte and serialized_size is its length.
C3_RoundTripOfEveryBuffer ==
    (Called("from_data") /\ last.ret) =>
        /\ to_data(tx[last.obj]) = data
        /\ serialized_size(tx[last.obj]) = Len(data)

\* C3 as amended: whenever from_data succeeds, to_data gives back the bytes
\* from_data consumed provided every compact-size among them is in its
\* shortest form, and the whole buffer if moreover nothing follows the
\* transaction; serialized_size is always the length of to_data, which is
\* never more than the bytes consumed.
C3_RoundTripOfShortestForm ==
    (Called("from_data") /\ last.ret) =>
        /\ serialized_size(tx[last.obj]) = Len(to_data(tx[last.obj]))
        /\ serialized_size(tx[last.obj]) <= last.arg.consumed
        /\ last.arg.consumed <= Len(data)
        /\ CompactSizesAreShortest(data) =>
               /\ to_data(tx[last.obj]) = SubSeq(data, 1, last.arg.consumed)
               /\ serialized_size(tx[last.obj]) = last.arg.consumed
        /\ (CompactSizesAreShortest(data) /\ last.arg.consumed = Len(data)) =>
               /\ to_data(tx[last.obj]) = data
               /\ serialized_size(tx[last.obj]) = Len(data)

\* from_data succeeded on a whole buffer in shortest form that holds an
\* input and an output.
C3_Witness ==
    /\ Called("from_data") /\ last.ret
    /\ CompactSizesAreShortest(data) /\ last.arg.consumed = Len(data)
    /\ tx[last.obj].inputs # <<>> /\ tx[last.obj].outputs # <<>>

\* The threads between acquiring and releasing hash_mutex_ in hash().
InHash == {t \in Threads : pc[t] \in {"check", "upgrade", "serialize",
                                      "store", "downgrade", "read",
                                      "unlock_upgrade"}}

MutexFree == mutex = [exclusive |-> {}, upgrade |-> {}]

\* C4: with threads racing in hash() on an empty cache and no reset or
\* assignment under way, the digest is stored at most once, it is the
\* digest of the transaction, and every caller returns the stored value.
C4_ComputedOncePerFill ==
    /\ stores <= 1
    /\ (tx[1].hash_ # <<>>) =>
           /\ stores = 1
           /\ tx[1].hash_ = <<bitcoin_hash(to_data(tx[1]))>>
    /\ \A t \in Threads : (ret[t] # <<>>) => ret[t] = tx[1].hash_

\* Two threads have returned from hash(), and one store was made.
C4_Witness ==
    /\ stores = 1
    /\ \E t, u \in Threads :
           /\ t # u
           /\ pc[t] = "idle" /\ ret[t] # <<>>
           /\ pc[u] = "idle" /\ ret[u] # <<>>

C9_SerializedOutsideExclusive ==
    \A t \in Threads : pc[t] = "serialize" => mutex.exclusive = {}

\* C9 as amended: a thread is at the to_data call of hash(), and at the
\* store of its result, only while it owns hash_mutex_ exclusively.
C9_SerializedUnderExclusive ==
    \A t \in Threads :
        pc[t] \in {"serialize", "store"} =>
            /\ mutex.exclusive = {t}
            /\ mutex.upgrade = {}

\* A thread is at the to_data call while another waits at lock_upgrade.
C9_Witness ==
    \E t, u \in Threads : pc[t] = "serialize" /\ pc[u] = "lock_upgrade"

\* C10: under fair scheduling every call of hash() and of reset() returns,
\* and hash_mutex_ is free whenever no call is under way.
C10_CallsReturnAndFreeTheMutex ==
    /\ \A t \in Threads : (pc[t] # "idle") ~> (pc[t] = "idle")
    /\ []((\A t \in Threads : pc[t] = "idle") => MutexFree)

\* reset() waits for the mutex that a hash() owns exclusively.
C10_Witness ==
    \E t, u \in Threads : pc[t] = "lock" /\ pc[u] = "serialize"

RECURSIVE sum_wide(_)
sum_wide(outputs) ==
    IF outputs = <<>> THEN Zeros(9)
    ELSE Add(Widen(Head(outputs).value, 9), sum_wide(Tail(outputs)))

\* C6: signature_operations() returns the sum of the signature operation
\* counts of the input scripts and of the output scripts (no sum of the
\* model comes near max_size_t), nonzero as soon as one count is.
C6_SigopsIsSumOfScripts ==
    Called("signature_operations") =>
        last.ret = to_little_endian(
            SumNat([i \in 1..Len(tx[last.obj].inputs) |->
                       script_sigop_count(tx[last.obj].inputs[i].script)])
          + SumNat([i \in 1..Len(tx[last.obj].outputs) |->
                       script_sigop_count(tx[last.obj].outputs[i].script)]),
            8)

\* C7: total_output_value() returns the sum of the output values when it
\* is below max_uint64 and max_uint64 when it is not, and a running total
\* that reached max_uint64 stays there through every later output.
C7_TotalIsSaturatingSum ==
    Called("total_output_value") =>
        /\ IF Less(sum_wide(tx[last.obj].outputs), Widen(max_uint64, 9))
           THEN Widen(last.ret, 9) = sum_wide(tx[last.obj].outputs)
           ELSE last.ret = max_uint64
        /\ \A k \in 1..Len(tx[last.obj].outputs) :
               accumulate_value(SubSeq(tx[last.obj].outputs, 1, k - 1),
                                Zeros(8)) = max_uint64
                   => accumulate_value(SubSeq(tx[last.obj].outputs, 1, k),
                                       Zeros(8)) = max_uint64

\* The total saturated by addition, and an output followed.
C7_Witness ==
    /\ Called("total_output_value")
    /\ last.ret = max_uint64
    /\ Len(tx[last.obj].outputs) >= 2
    /\ tx[last.obj].outputs[1].value # max_uint64
    /\ Less(Widen(max_uint64, 9), sum_wide(tx[last.obj].outputs))

\* C8: is_final is true for locktime 0; otherwise it is true when locktime
\* is below its basis, block_height (all 64 bits of it) for a locktime
\* under locktime_threshold and block_time for the others; and otherwise
\* it is true iff every input is final.
C8_IsFinalComparesWholeHeight ==
    Called("is_final") =>
        last.ret =
            IF tx[last.obj].locktime = Zeros(4) THEN TRUE
            ELSE IF Less(Widen(tx[last.obj].locktime, 8),
                         IF Less(tx[last.obj].locktime, locktime_threshold)
                         THEN last.arg.block_height
                         ELSE Widen(last.arg.block_time, 8))
                 THEN TRUE
                 ELSE \A i \in 1..Len(tx[last.obj].inputs) :
                          tx[last.obj].inputs[i].sequence = Ones(4)

=============================================================================
